---------------------------- MODULE Spec2Model ----------------------------
(***************************************************************************)
(* ValutaTrade Hub: the portfolio ledger (core/usecases.py, core/models.py)*)
(* and the exchange-rate updater (parser_service/updater.py,               *)
(* parser_service/api_clients.py).                                         *)
(*                                                                         *)
(* Amounts, balances and rates are Python floats in the source; the model  *)
(* uses integers (whole units) for the finite values and the values Inf    *)
(* and NaN for float("inf") and float("nan"), with the float operators     *)
(* FAdd, FSub, FMul, FLt, FLe and FEq in place of +, -, *, <, <= and ==.   *)
(* Python's None is the value None below.  A currency pair "FROM_TO" is    *)
(* the tuple <<FROM, TO>>.                                                 *)
(***************************************************************************)
EXTENDS Integers, Sequences, FiniteSets, TLC

VARIABLES
    portfolios,   \* the document "portfolios.json": a list of portfolio dicts
    users,        \* the document "users.json": a list of user dicts
    snapshot,     \* the document "rates.json": the current-rates snapshot
    history,      \* the document holding the historical records (a list)
    clock,        \* the wall clock read by the rates storage
    config,       \* ParserConfig: the API key is set, the fiat codes
    mem,          \* the Portfolio object held by the last ledger call (0 or 1)
    result,       \* what the last call did: arguments, exception or return value
    pc,           \* concurrent runs: where each session is in its call
    loc           \* concurrent runs: each session's local variables

vars == <<portfolios, users, snapshot, history, clock, config, mem, result, pc, loc>>

---------------------------------------------------------------------------
(* Bounds of the model *)

MaxBalance == 2
MaxRate == 2
MaxUpdates == 2

UserIds == {1, 2}
CodeInputs == {"BTC", "btc", "XYZ"}
RateValues == 0..MaxRate

None == -1

---------------------------------------------------------------------------
(* Python floats: the non-finite values and the operators on them *)

\* float("inf"), which `--amount inf` gives (cli/interface.py, type=float),
\* and the NaN that inf - inf gives; -Inf is the integer 0 - Inf
Inf == 1000
NaN == 2000

NegInf == 0 - Inf

Finite(x) == x \notin {Inf, NegInf, NaN}

FAdd(a, b) ==
    IF a = NaN \/ b = NaN THEN NaN
    ELSE IF {a, b} = {Inf, NegInf} THEN NaN
    ELSE IF Inf \in {a, b} THEN Inf
    ELSE IF NegInf \in {a, b} THEN NegInf
    ELSE a + b

FNeg(a) == IF a = NaN THEN NaN ELSE 0 - a

FSub(a, b) == FAdd(a, FNeg(b))

FMul(a, b) ==
    IF a = NaN \/ b = NaN THEN NaN
    ELSE IF Finite(a) /\ Finite(b) THEN a * b
    ELSE IF a = 0 \/ b = 0 THEN NaN
    ELSE IF (a > 0) = (b > 0) THEN Inf ELSE NegInf

\* the comparisons: every comparison with NaN is false
FLt(a, b) == a # NaN /\ b # NaN /\ a < b
FLe(a, b) == a # NaN /\ b # NaN /\ a <= b
FEq(a, b) == a # NaN /\ b # NaN /\ a = b

\* the amounts of the calls: whole units around zero, and float("inf")
AmountInputs == ((-1)..(MaxBalance + 1)) \cup {Inf}

---------------------------------------------------------------------------
(* core/currencies.py *)

CurrencyRegistry == {"USD", "EUR", "RUB", "GBP", "JPY", "BTC", "ETH", "LTC", "ADA"}

\* a variant that leaves the letter case alone
UpperKept(code) == code

\* str.upper() on the codes the model uses
Upper(code) ==
    CASE code = "btc" -> "BTC"
      [] code = "xyz" -> "XYZ"
      [] code = "usd" -> "USD"
      [] OTHER -> code

\* get_currency: the registry lookup; raises CurrencyNotFoundError
get_currency(code) ==
    IF Upper(code) \notin CurrencyRegistry
    THEN [raised |-> TRUE, exc |-> [type |-> "CurrencyNotFoundError", args |-> <<Upper(code)>>]]
    ELSE [raised |-> FALSE, exc |-> [type |-> "", args |-> <<>>]]

---------------------------------------------------------------------------
(* core/exceptions.py, and the exceptions the ledger raises *)

NoExc == [type |-> "", args |-> <<>>]
ValueError(msg) == [type |-> "ValueError", args |-> <<msg>>]
InsufficientFundsError(code, available, required) ==
    [type |-> "InsufficientFundsError", args |-> <<code, available, required>>]
CurrencyNotFoundError(code) == [type |-> "CurrencyNotFoundError", args |-> <<code>>]

MsgAmount == "amount must be positive"
MsgNoWallet == "no wallet for currency"
MsgNegative == "balance cannot be negative"
MsgDeposit == "deposit amount must be positive"
MsgWithdraw == "withdraw amount must be positive"

---------------------------------------------------------------------------
(* core/models.py: Wallet and Portfolio *)

Wallet(code) == [currency_code |-> code, balance |-> 0]

\* a setter that stores any value
SetBalanceUnchecked(w, value) ==
    [raised |-> FALSE, exc |-> NoExc, wallet |-> [w EXCEPT !.balance = value]]

\* the balance setter: refuses a negative value
SetBalance(w, value) ==
    IF FLt(value, 0)
    THEN [raised |-> TRUE, exc |-> ValueError(MsgNegative), wallet |-> w]
    ELSE [raised |-> FALSE, exc |-> NoExc, wallet |-> [w EXCEPT !.balance = value]]

\* a variant that sets the balance to the amount deposited
DepositOverwrite(w, amount) ==
    IF FLe(amount, 0)
    THEN [raised |-> TRUE, exc |-> ValueError(MsgDeposit), wallet |-> w]
    ELSE SetBalance(w, amount)

Deposit(w, amount) ==
    IF FLe(amount, 0)
    THEN [raised |-> TRUE, exc |-> ValueError(MsgDeposit), wallet |-> w]
    ELSE SetBalance(w, FAdd(w.balance, amount))

\* withdraw: an amount above the balance prints "error" and goes on to the
\* setter, which raises for the negative result; inf - inf is NaN, which the
\* setter stores
Withdraw(w, amount) ==
    IF FLe(amount, 0)
    THEN [raised |-> TRUE, exc |-> ValueError(MsgWithdraw), wallet |-> w]
    ELSE SetBalance(w, FSub(w.balance, amount))

WithdrawPrints(w, amount) == ~FLe(amount, 0) /\ FLt(w.balance, amount)

NoWallets == [c \in {} |-> Wallet(c)]

Portfolio(user_id) == [user_id |-> user_id, wallets |-> NoWallets]

\* a variant that starts a new dict of wallets
add_currency_alone(p, code) ==
    [p EXCEPT !.wallets = [c \in {Upper(code)} |-> Wallet(Upper(code))]]

\* Portfolio.add_currency on a code that has no wallet yet
add_currency(p, code) ==
    [p EXCEPT !.wallets =
        [c \in (DOMAIN p.wallets) \cup {Upper(code)} |->
            IF c = Upper(code) THEN Wallet(Upper(code)) ELSE p.wallets[c]]]

HasWallet(p, code) == Upper(code) \in DOMAIN p.wallets

\* Portfolio.get_wallet, where the wallet exists
get_wallet(p, code) == p.wallets[Upper(code)]

PutWallet(p, w, code) == [p EXCEPT !.wallets[Upper(code)] = w]

---------------------------------------------------------------------------
(* core/utils.py (DataManager, ExchangeRateService, validate_amount) *)

validate_amount(amount) == FLt(0, amount)

\* a variant that answers 0 for a pair that is not cached
get_rate_zero(snap, from, to) ==
    IF Upper(from) = Upper(to) THEN 1
    ELSE IF <<Upper(from), Upper(to)>> \in DOMAIN snap.pairs
         THEN snap.pairs[<<Upper(from), Upper(to)>>].rate
         ELSE 0

\* get_rate(from, to): the identity for equal codes, else the cached pair
get_rate(snap, from, to) ==
    IF Upper(from) = Upper(to) THEN 1
    ELSE IF <<Upper(from), Upper(to)>> \in DOMAIN snap.pairs
         THEN snap.pairs[<<Upper(from), Upper(to)>>].rate
         ELSE None

---------------------------------------------------------------------------
(* core/usecases.py: PortfolioManager *)

Indexes(data, user_id) == {i \in 1..Len(data) : data[i].user_id = user_id}

Min(S) == CHOOSE x \in S : \A y \in S : x <= y

\* a variant that never replaces
SaveIntoAppend(data, p) == Append(data, p)

\* _save_portfolio, given the list it loaded: replace the first document of
\* the user, or append
SaveInto(data, p) ==
    IF Indexes(data, p.user_id) # {}
    THEN [data EXCEPT ![Min(Indexes(data, p.user_id))] = p]
    ELSE Append(data, p)

\* a variant that saves the portfolio it returns on every call, as a new document
GetUserPortfolioSaving(data, user_id) ==
    IF Indexes(data, user_id) # {}
    THEN [portfolio |-> data[Min(Indexes(data, user_id))],
          data |-> Append(data, data[Min(Indexes(data, user_id))])]
    ELSE [portfolio |-> Portfolio(user_id), data |-> Append(data, Portfolio(user_id))]

\* get_user_portfolio, given the list it loaded: the portfolio, and the list
\* as it is afterwards (a missing portfolio is created and saved)
GetUserPortfolio(data, user_id) ==
    IF Indexes(data, user_id) # {}
    THEN [portfolio |-> data[Min(Indexes(data, user_id))], data |-> data]
    ELSE [portfolio |-> Portfolio(user_id), data |-> SaveInto(data, Portfolio(user_id))]

NoRet == [currency |-> "", amount |-> 0, rate |-> None, estimated |-> None,
          old_balance |-> 0, new_balance |-> 0]

Call(op, user_id, code, amount) ==
    [op |-> op, user_id |-> user_id, code |-> code, amount |-> amount]

Outcome(call, raised, exc, ret, printed) ==
    [op |-> call.op, user_id |-> call.user_id, code |-> call.code,
     amount |-> call.amount, raised |-> raised, exc |-> exc, ret |-> ret,
     printed |-> printed]

\* buy_currency l.97-104, on the Portfolio object: the wallet is created when
\* missing, then the deposit
BuyLocal(p, code, amount) ==
    LET p1 == IF HasWallet(p, code) THEN p ELSE add_currency(p, code)
        dep == Deposit(get_wallet(p1, code), amount)
    IN [raised |-> dep.raised, exc |-> dep.exc, printed |-> FALSE,
        portfolio |-> IF dep.raised THEN p1 ELSE PutWallet(p1, dep.wallet, code),
        old_balance |-> get_wallet(p1, code).balance]

\* sell_currency l.128-136, on the Portfolio object: the wallet must exist,
\* then the withdrawal
SellLocal(p, code, amount) ==
    IF ~HasWallet(p, code)
    THEN [raised |-> TRUE, exc |-> ValueError(MsgNoWallet), printed |-> FALSE,
          portfolio |-> p, old_balance |-> 0]
    ELSE LET wd == Withdraw(get_wallet(p, code), amount)
         IN [raised |-> wd.raised, exc |-> wd.exc,
             printed |-> WithdrawPrints(get_wallet(p, code), amount),
             portfolio |-> IF wd.raised THEN p ELSE PutWallet(p, wd.wallet, code),
             old_balance |-> get_wallet(p, code).balance]

\* a variant whose rate is 0 when there is none
BuyReturnZeroRate(snap, p, code, amount, old_balance) ==
    [currency |-> Upper(code), amount |-> amount,
     rate |-> IF get_rate(snap, Upper(code), "USD") = None THEN 0
              ELSE get_rate(snap, Upper(code), "USD"),
     estimated |-> None,
     old_balance |-> old_balance,
     new_balance |-> get_wallet(p, code).balance]

\* the dict buy_currency returns (l.108-120): estimated_cost stays None
BuyReturn(snap, p, code, amount, old_balance) ==
    [currency |-> Upper(code), amount |-> amount,
     rate |-> get_rate(snap, Upper(code), "USD"),
     estimated |-> None,
     old_balance |-> old_balance,
     new_balance |-> get_wallet(p, code).balance]

\* the dict sell_currency returns (l.140-154): `if rate:` is false for None
\* and for 0
SellReturn(snap, p, code, amount, old_balance) ==
    [currency |-> Upper(code), amount |-> amount,
     rate |-> get_rate(snap, Upper(code), "USD"),
     estimated |-> IF get_rate(snap, Upper(code), "USD") \notin {None, 0}
                   THEN FMul(amount, get_rate(snap, Upper(code), "USD")) ELSE None,
     old_balance |-> old_balance,
     new_balance |-> get_wallet(p, code).balance]

\* a variant that loads the portfolio before the amount is validated
InvalidAmountLoaded(data, user_id) ==
    [data |-> GetUserPortfolio(data, user_id).data,
     mem |-> <<GetUserPortfolio(data, user_id).portfolio>>]

\* l.93-94 and l.124-125: the amount is validated before get_user_portfolio,
\* so the call raises with the list untouched and no Portfolio object
InvalidAmount(data, user_id) == [data |-> data, mem |-> <<>>]

\* buy_currency as a function of the stored list: the list, the Portfolio
\* object and the outcome afterwards
BuyCurrency(data, snap, user_id, code, amount) ==
    LET call == Call("buy", user_id, code, amount) IN
    IF ~validate_amount(amount)
    THEN [data |-> InvalidAmount(data, user_id).data,
          mem |-> InvalidAmount(data, user_id).mem,
          out |-> Outcome(call, TRUE, ValueError(MsgAmount), NoRet, FALSE)]
    ELSE
      LET got == GetUserPortfolio(data, user_id)
          m == BuyLocal(got.portfolio, code, amount)
      IN IF m.raised
         THEN [data |-> got.data, mem |-> <<m.portfolio>>,
               out |-> Outcome(call, TRUE, m.exc, NoRet, m.printed)]
         ELSE [data |-> SaveInto(got.data, m.portfolio), mem |-> <<m.portfolio>>,
               out |-> Outcome(call, FALSE, NoExc,
                          BuyReturn(snap, m.portfolio, code, amount, m.old_balance),
                          m.printed)]

\* sell_currency, likewise
SellCurrency(data, snap, user_id, code, amount) ==
    LET call == Call("sell", user_id, code, amount) IN
    IF ~validate_amount(amount)
    THEN [data |-> InvalidAmount(data, user_id).data,
          mem |-> InvalidAmount(data, user_id).mem,
          out |-> Outcome(call, TRUE, ValueError(MsgAmount), NoRet, FALSE)]
    ELSE
      LET got == GetUserPortfolio(data, user_id)
          m == SellLocal(got.portfolio, code, amount)
      IN IF m.raised
         THEN [data |-> got.data, mem |-> <<m.portfolio>>,
               out |-> Outcome(call, TRUE, m.exc, NoRet, m.printed)]
         ELSE [data |-> SaveInto(got.data, m.portfolio), mem |-> <<m.portfolio>>,
               out |-> Outcome(call, FALSE, NoExc,
                          SellReturn(snap, m.portfolio, code, amount, m.old_balance),
                          m.printed)]

---------------------------------------------------------------------------
(* parser_service/config.py and parser_service/storage.py *)

BASE_CURRENCY == "USD"
CRYPTO_CURRENCIES == <<"BTC">>
FIAT_CURRENCIES == <<"EUR">>

DefaultConfig == [api_key |-> TRUE, fiat |-> FIAT_CURRENCIES]

EmptySnapshot == [pairs |-> [k \in {} |-> [rate |-> 0, updated_at |-> 0, source |-> ""]],
                  source |-> "", last_refresh |-> 0]

\* dict.update: the entries of `new` replace or extend those of `old`
Update(old, new) ==
    [k \in (DOMAIN old) \cup (DOMAIN new) |-> IF k \in DOMAIN new THEN new[k] ELSE old[k]]

\* a variant that keeps only the pairs of this write
save_current_rates_wholesale(snap, rates, source, now) ==
    [pairs |-> [k \in DOMAIN rates |->
                   [rate |-> rates[k], updated_at |-> now, source |-> source]],
     source |-> source,
     last_refresh |-> now]

\* save_current_rates(rates, source): the fetched pairs replace or extend the
\* cached pairs, and last_refresh becomes the current time
save_current_rates(snap, rates, source, now) ==
    [pairs |-> Update(snap.pairs,
                 [k \in DOMAIN rates |->
                     [rate |-> rates[k], updated_at |-> now, source |-> source]]),
     source |-> source,
     last_refresh |-> now]

\* save_historical_record: one record appended
save_historical_record(hist, from, to, rate, source, meta, now) ==
    Append(hist, [from |-> from, to |-> to, rate |-> rate, source |-> source,
                  timestamp |-> now, meta |-> meta])

OnePair(pair, rate) ==
    save_current_rates(EmptySnapshot, [k \in {pair} |-> rate], "ParserService", 1)

---------------------------------------------------------------------------
(* parser_service/api_clients.py *)

ApiRequestError(reason) == [type |-> "ApiRequestError", args |-> <<reason>>]

NoRates == [k \in {} |-> 0]

\* What a provider answers to one request: the request fails ("network"),
\* the body is not JSON, or a JSON body: its "result" field and its rate per
\* code.  For a body that is not JSON, response.json() raises an exception
\* that is a RequestException (and a ValueError) with requests 2.27 or later
\* ("json"), and a ValueError that is no RequestException with the versions
\* before ("value"); src/ pins no version
Failed(kind) == [kind |-> kind, result |-> "", rates |-> NoRates]
Body(res, rates) == [kind |-> "ok", result |-> res, rates |-> rates]

\* A JSON body of another shape: the document is `null` ("null"), or it is an
\* object whose entry for the rates is no object ("entry"): {"bitcoin": 5}
\* for CoinGecko, {"result": "success", "conversion_rates": null} for
\* ExchangeRate-API
Misshaped(kind) == [kind |-> kind, result |-> "success", rates |-> NoRates]

TypeError(where) == [type |-> "TypeError", args |-> <<where>>]
AttributeError(where) == [type |-> "AttributeError", args |-> <<where>>]

\* _make_request: the handler of RequestException (l.28) comes first and
\* takes every RequestException, the handler of ValueError (l.31) the rest;
\* both raise ApiRequestError
make_request(resp) ==
    IF resp.kind \in {"network", "json"}
    THEN [raised |-> TRUE, exc |-> ApiRequestError("network"), data |-> resp]
    ELSE IF resp.kind = "value"
    THEN [raised |-> TRUE, exc |-> ApiRequestError("format"), data |-> resp]
    ELSE [raised |-> FALSE, exc |-> NoExc, data |-> resp]

\* the pairs CODE_BASE for the configured codes that the body holds
PairRates(codes, data) ==
    [k \in {<<codes[i], BASE_CURRENCY>> : i \in {j \in 1..Len(codes) : codes[j] \in DOMAIN data}}
        |-> data[k[1]]]

Fetched(raised, exc, rates, requested) ==
    [raised |-> raised, exc |-> exc, rates |-> rates, requested |-> requested]

\* CoinGeckoClient.fetch_rates: l.56 applies `in` to the document and to its
\* entry, which raises TypeError for `null` and for a number; only
\* ApiRequestError is handled (l.63)
CoinGeckoFetch(cfg, resp) ==
    LET r == make_request(resp) IN
    IF r.raised THEN Fetched(TRUE, r.exc, NoRates, TRUE)
    ELSE IF r.data.kind \in {"null", "entry"}
    THEN Fetched(TRUE, TypeError("in"), NoRates, TRUE)
    ELSE Fetched(FALSE, NoExc, PairRates(CRYPTO_CURRENCIES, r.data.rates), TRUE)

\* a variant that sends the request without looking at the key
ExchangeRateFetchAnyway(cfg, resp) ==
    LET r == make_request(resp) IN
    IF r.raised THEN Fetched(TRUE, r.exc, NoRates, TRUE)
    ELSE IF r.data.kind = "null"
    THEN Fetched(TRUE, AttributeError("get"), NoRates, TRUE)
    ELSE IF r.data.result # "success"
    THEN Fetched(TRUE, ApiRequestError("api"), NoRates, TRUE)
    ELSE IF r.data.kind = "entry"
    THEN Fetched(TRUE, TypeError("in"), NoRates, TRUE)
    ELSE Fetched(FALSE, NoExc, PairRates(cfg.fiat, r.data.rates), TRUE)

\* ExchangeRateApiClient.fetch_rates: without a key no request is made
\* (l.75-77); data.get (l.84) raises AttributeError for `null`, and `in`
\* (l.93) raises TypeError for conversion_rates that is no object; only
\* ApiRequestError is handled (l.100)
ExchangeRateFetch(cfg, resp) ==
    IF ~cfg.api_key THEN Fetched(FALSE, NoExc, NoRates, FALSE)
    ELSE LET r == make_request(resp) IN
         IF r.raised THEN Fetched(TRUE, r.exc, NoRates, TRUE)
         ELSE IF r.data.kind = "null"
         THEN Fetched(TRUE, AttributeError("get"), NoRates, TRUE)
         ELSE IF r.data.result # "success"
         THEN Fetched(TRUE, ApiRequestError("api"), NoRates, TRUE)
         ELSE IF r.data.kind = "entry"
         THEN Fetched(TRUE, TypeError("in"), NoRates, TRUE)
         ELSE Fetched(FALSE, NoExc, PairRates(cfg.fiat, r.data.rates), TRUE)

---------------------------------------------------------------------------
(* parser_service/updater.py: RatesUpdater *)

\* self.clients, in the order of the dict
Clients == <<"coingecko", "exchangerate">>

ClientNames == {Clients[i] : i \in 1..Len(Clients)}

\* the codes a client builds its mapping from, in order
ClientCodes(cfg, name) == IF name = "coingecko" THEN CRYPTO_CURRENCIES ELSE cfg.fiat

fetch_rates(cfg, name, resp) ==
    IF name = "coingecko" THEN CoinGeckoFetch(cfg, resp) ELSE ExchangeRateFetch(cfg, resp)

\* str.upper() on the client names
UpperName(name) == IF name = "coingecko" THEN "COINGECKO" ELSE "EXCHANGERATE"

\* the source argument: None (and "") mean every client
NoSource == ""

\* a variant that falls back to every client for a name it does not know
sources_to_update_known(source) == IF source \in ClientNames THEN <<source>> ELSE Clients

sources_to_update(source) == IF source # NoSource THEN <<source>> ELSE Clients

\* a variant that records the first pair of the mapping only
RECURSIVE SaveRecordsOnce(_, _, _, _, _)
SaveRecordsOnce(hist, codes, rates, name, now) ==
    IF codes = <<>> THEN hist
    ELSE IF <<Head(codes), BASE_CURRENCY>> \in DOMAIN rates
    THEN save_historical_record(hist, Head(codes), BASE_CURRENCY,
            rates[<<Head(codes), BASE_CURRENCY>>], UpperName(name),
            [request_ms |-> 0, status_code |-> 200], now)
    ELSE SaveRecordsOnce(hist, Tail(codes), rates, name, now)

\* l.40-45: one historical record per pair of the mapping, in its order
RECURSIVE SaveRecords(_, _, _, _, _)
SaveRecords(hist, codes, rates, name, now) ==
    IF codes = <<>> THEN hist
    ELSE IF <<Head(codes), BASE_CURRENCY>> \in DOMAIN rates
    THEN SaveRecords(
            save_historical_record(hist, Head(codes), BASE_CURRENCY,
                rates[<<Head(codes), BASE_CURRENCY>>], UpperName(name),
                [request_ms |-> 0, status_code |-> 200], now),
            Tail(codes), rates, name, now)
    ELSE SaveRecords(hist, Tail(codes), rates, name, now)

\* an exception the loop of run_update does not catch
Uncaught(f) == f.raised /\ f.exc.type # "ApiRequestError"

\* a variant that drops what was accumulated
AfterErrorReset(all_rates) == NoRates

\* what the loop keeps of all_rates when a client raised ApiRequestError
AfterError(all_rates) == all_rates

\* l.30-51: the loop over the sources; st holds all_rates, the history
\* document, the clients whose fetch_rates was called and the exception that
\* escaped, if any
RECURSIVE UpdateLoop(_, _, _, _, _)
UpdateLoop(todo, cfg, resps, now, st) ==
    IF todo = <<>> THEN st
    ELSE IF Head(todo) \notin ClientNames
    THEN UpdateLoop(Tail(todo), cfg, resps, now, st)
    ELSE LET name == Head(todo)
             f == fetch_rates(cfg, name, resps[name])
         IN IF Uncaught(f)
            THEN [st EXCEPT !.raised = TRUE, !.exc = f.exc,
                            !.invoked = Append(st.invoked, name)]
            ELSE IF f.raised
            THEN UpdateLoop(Tail(todo), cfg, resps, now,
                    [st EXCEPT !.all_rates = AfterError(st.all_rates),
                               !.invoked = Append(st.invoked, name)])
            ELSE UpdateLoop(Tail(todo), cfg, resps, now,
                    [st EXCEPT !.all_rates = Update(st.all_rates, f.rates),
                               !.invoked = Append(st.invoked, name),
                               !.history = SaveRecords(st.history,
                                              ClientCodes(cfg, name), f.rates, name, now)])

\* l.53: `if all_rates:`
ShouldSave(all_rates) == DOMAIN all_rates # {}

\* what run_update leaves in `result` when the call ends
Returned(cfg, source, resps, st, saved) ==
    [op |-> "run_update", source |-> source,
     fetched |-> [n \in ClientNames |-> fetch_rates(cfg, n, resps[n])],
     invoked |-> st.invoked, raised |-> st.raised, exc |-> st.exc,
     ret |-> st.all_rates, saved |-> saved]

\* run_update as a function of the stored documents
RunUpdateOn(snap, hist, cfg, source, resps, now) ==
    LET st == UpdateLoop(sources_to_update(source), cfg, resps, now,
                 [all_rates |-> NoRates, history |-> hist, raised |-> FALSE, exc |-> NoExc,
                  invoked |-> <<>>])
        save == ~st.raised /\ ShouldSave(st.all_rates)
    IN [snapshot |-> IF save
                     THEN save_current_rates(snap, st.all_rates, "ParserService", now)
                     ELSE snap,
        history |-> st.history,
        out |-> Returned(cfg, source, resps, st, save)]

---------------------------------------------------------------------------
(* Sequential ledger: one call at a time *)

Balances(data) ==
    UNION {{data[i].wallets[c].balance : c \in DOMAIN data[i].wallets} : i \in 1..Len(data)}

InitResult == Outcome(Call("none", 0, "", 0), FALSE, NoExc, NoRet, FALSE)

InitLedger ==
    /\ portfolios = <<>>
    /\ users = <<>>
    /\ snapshot \in {EmptySnapshot, OnePair(<<"BTC", "USD">>, 2), OnePair(<<"BTC", "USD">>, 0)}
    /\ history = <<>>
    /\ clock = 1
    /\ config = DefaultConfig
    /\ mem = <<>>
    /\ result = InitResult
    /\ pc = <<>>
    /\ loc = <<>>

\* what the wallets W (document index, code) of the list hold together
\* a wallet at inf or NaN counts as a full store
Units(balance) == IF Finite(balance) THEN balance ELSE MaxBalance

RECURSIVE Holdings(_, _)
Holdings(data, W) ==
    IF W = {} THEN 0
    ELSE LET w == CHOOSE x \in W : TRUE
         IN Units(data[w[1]].wallets[w[2]].balance) + Holdings(data, W \ {w})

\* The code sets no limit on a deposit.  The model explores the stores whose
\* wallets hold at most MaxBalance units together: a buy may add to a funded
\* wallet, and may stand next to funded wallets, as long as the sum fits
Fits(data) ==
    Holdings(data, UNION {{<<i, c>> : c \in DOMAIN data[i].wallets} : i \in 1..Len(data)})
        <= MaxBalance

\* a variant in which the purchase stamps the snapshot as refreshed
BuyRefreshing(user_id, code, amount) ==
    LET r == BuyCurrency(portfolios, snapshot, user_id, code, amount) IN
    /\ Fits(r.data)
    /\ portfolios' = r.data
    /\ mem' = r.mem
    /\ result' = r.out
    /\ snapshot' = save_current_rates(snapshot, NoRates, "ParserService", clock)
    /\ UNCHANGED <<users, history, clock, config, pc, loc>>

Buy(user_id, code, amount) ==
    LET r == BuyCurrency(portfolios, snapshot, user_id, code, amount) IN
    /\ Fits(r.data)
    /\ portfolios' = r.data
    /\ mem' = r.mem
    /\ result' = r.out
    /\ UNCHANGED <<users, snapshot, history, clock, config, pc, loc>>

Sell(user_id, code, amount) ==
    LET r == SellCurrency(portfolios, snapshot, user_id, code, amount) IN
    /\ portfolios' = r.data
    /\ mem' = r.mem
    /\ result' = r.out
    /\ UNCHANGED <<users, snapshot, history, clock, config, pc, loc>>

ShowPortfolio(user_id) ==
    LET got == GetUserPortfolio(portfolios, user_id) IN
    /\ portfolios' = got.data
    /\ mem' = <<got.portfolio>>
    /\ result' = Outcome(Call("get_user_portfolio", user_id, "", 0), FALSE, NoExc, NoRet, FALSE)
    /\ UNCHANGED <<users, snapshot, history, clock, config, pc, loc>>

NextLedger ==
    \/ \E u \in UserIds, c \in CodeInputs, a \in AmountInputs : Buy(u, c, a)
    \/ \E u \in UserIds, c \in CodeInputs, a \in AmountInputs : Sell(u, c, a)
    \/ \E u \in UserIds : ShowPortfolio(u)

SpecLedger == InitLedger /\ [][NextLedger]_vars

---------------------------------------------------------------------------
(* core/usecases.py: UserManager, and the ledger with registration *)

MsgUsername == "username cannot be empty"
MsgPassword == "password must be at least 4 characters"
MsgExists == "user already exists"

\* str.strip() on the names the model uses: a name of spaces becomes empty
Strip(name) ==
    CASE name = " " -> ""
      [] name = "  " -> ""
      [] OTHER -> name

UsernameInputs == {"", " ", "alice", "bob"}
PasswordInputs == {"abc", "abcd"}

\* the codes and the amounts traded next to registration
AccountCodes == {"BTC", "XYZ"}
AccountAmounts == {0, 1, Inf}

\* _create_user_portfolio: an empty portfolio is appended unless the list
\* holds a document of the user
create_user_portfolio(data, user_id) ==
    IF Indexes(data, user_id) = {} THEN Append(data, Portfolio(user_id)) ELSE data

\* get_next_user_id: an id no user of users.json has
NextUserIds(us) == {id \in UserIds : \A i \in 1..Len(us) : us[i].user_id # id}

Registered(username, password, user_id, raised, exc) ==
    [op |-> "register_user", username |-> username, password |-> password,
     user_id |-> user_id, raised |-> raised, exc |-> exc]

\* register_user as a function of the stored lists; user_id is what
\* get_next_user_id returns
RegisterUser(us, data, username, password, user_id) ==
    IF username = "" \/ Strip(username) = ""
    THEN [users |-> us, data |-> data,
          out |-> Registered(username, password, 0, TRUE, ValueError(MsgUsername))]
    ELSE IF Len(password) < 4
    THEN [users |-> us, data |-> data,
          out |-> Registered(username, password, 0, TRUE, ValueError(MsgPassword))]
    ELSE IF \E i \in 1..Len(us) : us[i].username = username
    THEN [users |-> us, data |-> data,
          out |-> Registered(username, password, 0, TRUE, ValueError(MsgExists))]
    ELSE [users |-> Append(us, [user_id |-> user_id, username |-> username]),
          data |-> create_user_portfolio(data, user_id),
          out |-> Registered(username, password, user_id, FALSE, NoExc)]

InitAccounts ==
    /\ portfolios = <<>>
    /\ users = <<>>
    /\ snapshot = EmptySnapshot
    /\ history = <<>>
    /\ clock = 1
    /\ config = DefaultConfig
    /\ mem = <<>>
    /\ result = InitResult
    /\ pc = <<>>
    /\ loc = <<>>

Register(username, password, user_id) ==
    LET r == RegisterUser(users, portfolios, username, password, user_id) IN
    /\ users' = r.users
    /\ portfolios' = r.data
    /\ mem' = <<>>
    /\ result' = r.out
    /\ UNCHANGED <<snapshot, history, clock, config, pc, loc>>

NextAccounts ==
    \/ \E n \in UsernameInputs, pw \in PasswordInputs, id \in NextUserIds(users) :
          Register(n, pw, id)
    \/ \E u \in UserIds, c \in AccountCodes, a \in AccountAmounts : Buy(u, c, a)
    \/ \E u \in UserIds, c \in AccountCodes, a \in AccountAmounts : Sell(u, c, a)
    \/ \E u \in UserIds : ShowPortfolio(u)

SpecAccounts == InitAccounts /\ [][NextAccounts]_vars

---------------------------------------------------------------------------
(* The rates updater: one run_update at a time *)

RateMaps(codes) ==
    UNION {[S -> RateValues] : S \in SUBSET codes}

CoinGeckoResponses ==
    {Failed("network"), Failed("json"), Failed("value"),
     Misshaped("null"), Misshaped("entry")}
        \cup {Body("", m) : m \in RateMaps({"BTC"})}

ExchangeRateResponses ==
    {Failed("network"), Failed("json"), Failed("value"), Body("error", NoRates),
     Misshaped("null"), Misshaped("entry")}
        \cup {Body("success", m) : m \in RateMaps({"EUR"})}

SourceInputs == {NoSource, "coingecko", "exchangerate", "binance"}

InitRates ==
    /\ portfolios = <<>>
    /\ users = <<>>
    /\ snapshot = EmptySnapshot
    /\ history = <<>>
    /\ clock = 1
    /\ config \in {[api_key |-> k, fiat |-> FIAT_CURRENCIES] : k \in BOOLEAN}
    /\ mem = <<>>
    /\ result = InitResult
    /\ pc = <<>>
    /\ loc = <<>>

RunUpdate(source, cg, er) ==
    LET r == RunUpdateOn(snapshot, history, config, source,
                [n \in ClientNames |-> IF n = "coingecko" THEN cg ELSE er], clock)
    IN /\ clock <= MaxUpdates
       /\ snapshot' = r.snapshot
       /\ history' = r.history
       /\ result' = r.out
       /\ clock' = clock + 1
       /\ UNCHANGED <<portfolios, users, config, mem, pc, loc>>

NextRates ==
    \E source \in SourceInputs, cg \in CoinGeckoResponses, er \in ExchangeRateResponses :
        RunUpdate(source, cg, er)

SpecRates == InitRates /\ [][NextRates]_vars

---------------------------------------------------------------------------
(* The rates updater under a configuration in which both providers are    *)
(* responsible for BTC: the fiat client's codes are EUR and BTC            *)

SharedFiat == <<"EUR", "BTC">>

FamilyRates == {1, 2}

FamilyMaps(codes) == UNION {[S -> FamilyRates] : S \in SUBSET codes}

FamilyCoinGecko ==
    {Failed("network"), Misshaped("entry")} \cup {Body("", m) : m \in FamilyMaps({"BTC"})}

FamilyExchangeRate ==
    {Failed("json"), Body("error", NoRates), Misshaped("null")}
        \cup {Body("success", m) : m \in FamilyMaps({"EUR", "BTC"})}

InitFamilies ==
    /\ portfolios = <<>>
    /\ users = <<>>
    /\ snapshot = EmptySnapshot
    /\ history = <<>>
    /\ clock = 1
    /\ config = [api_key |-> TRUE, fiat |-> SharedFiat]
    /\ mem = <<>>
    /\ result = InitResult
    /\ pc = <<>>
    /\ loc = <<>>

NextFamilies ==
    \E source \in SourceInputs, cg \in FamilyCoinGecko, er \in FamilyExchangeRate :
        RunUpdate(source, cg, er)

SpecFamilies == InitFamilies /\ [][NextFamilies]_vars

---------------------------------------------------------------------------
(* The ledger and the rates updater in one session: the calls of the       *)
(* command loop, one at a time                                             *)

HubCodes == {"BTC"}

HubAmounts == {0, 1, Inf}

HubCoinGecko == {Failed("network"), Body("", [c \in {"BTC"} |-> MaxRate])}

HubExchangeRate ==
    {Body("error", NoRates), Misshaped("entry"), Body("success", [c \in {"EUR"} |-> 1])}

HubSources == {NoSource, "coingecko"}

InitHub ==
    /\ portfolios = <<>>
    /\ users = <<>>
    /\ snapshot = EmptySnapshot
    /\ history = <<>>
    /\ clock = 1
    /\ config = DefaultConfig
    /\ mem = <<>>
    /\ result = InitResult
    /\ pc = <<>>
    /\ loc = <<>>

NextHub ==
    \/ \E u \in UserIds, c \in HubCodes, a \in HubAmounts : Buy(u, c, a)
    \/ \E u \in UserIds, c \in HubCodes, a \in HubAmounts : Sell(u, c, a)
    \/ \E u \in UserIds : ShowPortfolio(u)
    \/ \E source \in HubSources, cg \in HubCoinGecko, er \in HubExchangeRate :
          RunUpdate(source, cg, er)

SpecHub == InitHub /\ [][NextHub]_vars

---------------------------------------------------------------------------
(* run_update step by step: one step per source of the working set, then   *)
(* the statements after the loop.  pc[1] is the updater's position, loc[1] *)
(* its local variables                                                     *)

\* l.27: the local state at the start of the loop
LoopStart(hist) ==
    [all_rates |-> NoRates, history |-> hist, raised |-> FALSE, exc |-> NoExc,
     invoked |-> <<>>]

\* a variant that reaches the write after every source
SaveAfterEach(todo) == TRUE

\* l.53 stands after the for loop of l.30: it is reached when no source is left
SaveAfter(todo) == todo = <<>>

IdleRun ==
    [source |-> NoSource, todo |-> <<>>,
     resps |-> [n \in ClientNames |-> Failed("network")],
     st |-> LoopStart(<<>>), writes |-> 0]

InitSteps ==
    /\ portfolios = <<>>
    /\ users = <<>>
    /\ snapshot = EmptySnapshot
    /\ history = <<>>
    /\ clock = 1
    /\ config \in {[api_key |-> k, fiat |-> FIAT_CURRENCIES] : k \in BOOLEAN}
    /\ mem = <<>>
    /\ result = InitResult
    /\ pc = <<"idle">>
    /\ loc = <<IdleRun>>

\* the snapshot after the statements of l.53-54, when they are reached
Written(todo, all_rates) == SaveAfter(todo) /\ ShouldSave(all_rates)

\* l.23-28: the call starts with its working set
UpdBegin(source, cg, er) ==
    /\ pc[1] = "idle"
    /\ clock <= MaxUpdates
    /\ pc' = <<"loop">>
    /\ loc' = <<[source |-> source, todo |-> sources_to_update(source),
                 resps |-> [n \in ClientNames |-> IF n = "coingecko" THEN cg ELSE er],
                 st |-> LoopStart(history), writes |-> 0]>>
    /\ result' = [op |-> "run_update_begin", source |-> source]
    /\ UNCHANGED <<portfolios, users, snapshot, history, clock, config, mem>>

\* l.30-51: one pass of the loop body, for the first source left; an
\* exception that l.49 does not handle ends the call there
UpdSource ==
    /\ pc[1] = "loop"
    /\ loc[1].todo # <<>>
    /\ LET st == UpdateLoop(<<Head(loc[1].todo)>>, config, loc[1].resps, clock, loc[1].st)
           w == ~st.raised /\ Written(loc[1].todo, st.all_rates)
       IN /\ history' = st.history
          /\ snapshot' = IF w THEN save_current_rates(snapshot, st.all_rates,
                                       "ParserService", clock)
                         ELSE snapshot
          /\ loc' = <<[loc[1] EXCEPT !.todo = Tail(loc[1].todo), !.st = st,
                                     !.writes = IF w THEN @ + 1 ELSE @]>>
          /\ result' = IF st.raised
                       THEN Returned(config, loc[1].source, loc[1].resps, st, FALSE)
                       ELSE [op |-> "run_update_source", source |-> Head(loc[1].todo)]
          /\ pc' = IF st.raised THEN <<"idle">> ELSE pc
          /\ clock' = IF st.raised THEN clock + 1 ELSE clock
    /\ UNCHANGED <<portfolios, users, config, mem>>

\* l.53-59: after the loop, the write and the return
UpdEnd ==
    /\ pc[1] = "loop"
    /\ loc[1].todo = <<>>
    /\ LET st == loc[1].st
           w == Written(loc[1].todo, st.all_rates)
       IN /\ snapshot' = IF w THEN save_current_rates(snapshot, st.all_rates,
                                       "ParserService", clock)
                         ELSE snapshot
          /\ loc' = <<[loc[1] EXCEPT !.writes = IF w THEN @ + 1 ELSE @]>>
          /\ result' = Returned(config, loc[1].source, loc[1].resps, st, w)
    /\ pc' = <<"idle">>
    /\ clock' = clock + 1
    /\ UNCHANGED <<portfolios, users, history, config, mem>>

NextSteps ==
    \/ \E source \in SourceInputs, cg \in CoinGeckoResponses, er \in ExchangeRateResponses :
          UpdBegin(source, cg, er)
    \/ UpdSource
    \/ UpdEnd

SpecSteps == InitSteps /\ [][NextSteps]_vars

---------------------------------------------------------------------------
(* Concurrent sessions on the same data directory.  Each session makes one  *)
(* buy_currency or sell_currency call; a step is one load_json or save_json *)
(* of "portfolios.json" together with the local computation that follows it *)
(* up to the next load or save.  Nothing in the code takes a lock.          *)

Sessions == {1, 2}

\* the stored portfolios when the sessions start: user 1 holds 1 BTC, user 2
\* has no portfolio yet
ConcStore == BuyCurrency(<<>>, EmptySnapshot, 1, "BTC", 1).data

ConcAmounts == 1..(MaxBalance + 1)

IdleLoc == [op |-> "none", user_id |-> 0, code |-> "", amount |-> 0,
            portfolio |-> <<>>, data |-> <<>>, raised |-> FALSE, exc |-> NoExc]

InitConc ==
    /\ portfolios = ConcStore
    /\ users = <<>>
    /\ snapshot = EmptySnapshot
    /\ history = <<>>
    /\ clock = 1
    /\ config = DefaultConfig
    /\ mem = <<>>
    /\ result = InitResult
    /\ pc = [s \in Sessions |-> "idle"]
    /\ loc = [s \in Sessions |-> IdleLoc]

LocalOp(op, p, code, amount) ==
    IF op = "buy" THEN BuyLocal(p, code, amount) ELSE SellLocal(p, code, amount)

\* the session holds its Portfolio object: l.97-104 or l.128-136 run on it,
\* and the call either raises or goes on to _save_portfolio
AfterGet(s, p) ==
    LET m == LocalOp(loc[s].op, p, loc[s].code, loc[s].amount) IN
    /\ loc' = [loc EXCEPT ![s].portfolio = <<m.portfolio>>,
                          ![s].raised = m.raised, ![s].exc = m.exc]
    /\ pc' = [pc EXCEPT ![s] = IF m.raised THEN "done" ELSE "save_load"]

\* the call starts: validate_amount (l.93, l.124)
Start(s, op, user_id, code, amount) ==
    /\ pc[s] = "idle"
    /\ loc' = [loc EXCEPT ![s] = [IdleLoc EXCEPT !.op = op, !.user_id = user_id,
                  !.code = code, !.amount = amount,
                  !.raised = ~validate_amount(amount),
                  !.exc = IF validate_amount(amount) THEN NoExc ELSE ValueError(MsgAmount)]]
    /\ pc' = [pc EXCEPT ![s] = IF validate_amount(amount) THEN "get_load" ELSE "done"]
    /\ UNCHANGED <<portfolios, users, snapshot, history, clock, config, mem, result>>

\* get_user_portfolio l.81-85: load the list and look the user up
GetLoad(s) ==
    /\ pc[s] = "get_load"
    /\ IF Indexes(portfolios, loc[s].user_id) # {}
       THEN AfterGet(s, portfolios[Min(Indexes(portfolios, loc[s].user_id))])
       ELSE /\ pc' = [pc EXCEPT ![s] = "boot_load"]
            /\ loc' = [loc EXCEPT ![s].portfolio = <<Portfolio(loc[s].user_id)>>]
    /\ UNCHANGED <<portfolios, users, snapshot, history, clock, config, mem, result>>

\* get_user_portfolio l.87-88: _save_portfolio of the new portfolio loads the list
BootLoad(s) ==
    /\ pc[s] = "boot_load"
    /\ loc' = [loc EXCEPT ![s].data = portfolios]
    /\ pc' = [pc EXCEPT ![s] = "boot_write"]
    /\ UNCHANGED <<portfolios, users, snapshot, history, clock, config, mem, result>>

\* ... and saves the list it loaded, with the new portfolio in it
BootWrite(s) ==
    /\ pc[s] = "boot_write"
    /\ portfolios' = SaveInto(loc[s].data, loc[s].portfolio[1])
    /\ AfterGet(s, loc[s].portfolio[1])
    /\ UNCHANGED <<users, snapshot, history, clock, config, mem, result>>

\* _save_portfolio l.158: load the list
SaveLoad(s) ==
    /\ pc[s] = "save_load"
    /\ loc' = [loc EXCEPT ![s].data = portfolios]
    /\ pc' = [pc EXCEPT ![s] = "save_write"]
    /\ UNCHANGED <<portfolios, users, snapshot, history, clock, config, mem, result>>

\* _save_portfolio l.160-170: save the list it loaded, with the portfolio in
\* it; the rate lookup that follows changes nothing and the call returns
SaveWrite(s) ==
    /\ pc[s] = "save_write"
    /\ portfolios' = SaveInto(loc[s].data, loc[s].portfolio[1])
    /\ pc' = [pc EXCEPT ![s] = "done"]
    /\ UNCHANGED <<users, snapshot, history, clock, config, mem, result, loc>>

NextConc ==
    \/ \E s \in Sessions, op \in {"buy", "sell"}, u \in UserIds, a \in ConcAmounts :
          Start(s, op, u, "BTC", a)
    \/ \E s \in Sessions : GetLoad(s)
    \/ \E s \in Sessions : BootLoad(s)
    \/ \E s \in Sessions : BootWrite(s)
    \/ \E s \in Sessions : SaveLoad(s)
    \/ \E s \in Sessions : SaveWrite(s)

SpecConc == InitConc /\ [][NextConc]_vars

AllDone == \A s \in Sessions : pc[s] = "done"

\* the balance stored for a user and code (0 when there is no wallet)
StoredBalance(data, user_id, code) ==
    IF Indexes(data, user_id) # {} /\ HasWallet(data[Min(Indexes(data, user_id))], code)
    THEN get_wallet(data[Min(Indexes(data, user_id))], code).balance
    ELSE 0

\* what the successful calls of the sessions add to the balance of a user
RECURSIVE NetOf(_, _)
NetOf(S, user_id) ==
    IF S = {} THEN 0
    ELSE LET s == CHOOSE x \in S : TRUE
             d == IF loc[s].user_id # user_id \/ loc[s].raised THEN 0
                  ELSE IF loc[s].op = "buy" THEN loc[s].amount ELSE 0 - loc[s].amount
         IN d + NetOf(S \ {s}, user_id)

\* the document stored for a user (none, or the first one)
StoredDoc(data, user_id) ==
    IF Indexes(data, user_id) = {} THEN <<>> ELSE <<data[Min(Indexes(data, user_id))]>>

\* the store after the one call of a session, run alone from the start
Alone(s) ==
    IF loc[s].op = "buy"
    THEN BuyCurrency(ConcStore, EmptySnapshot, loc[s].user_id, loc[s].code, loc[s].amount).data
    ELSE SellCurrency(ConcStore, EmptySnapshot, loc[s].user_id, loc[s].code, loc[s].amount).data

\* C4: when concurrent calls on the same user and currency have all
\* finished, the stored balance is the initial balance plus the successful
\* buys minus the successful sells
C4_NoLostUpdate ==
    (AllDone /\ \A s \in Sessions : loc[s].user_id = 1)
        => StoredBalance(portfolios, 1, "BTC")
             = StoredBalance(ConcStore, 1, "BTC") + NetOf(Sessions, 1)

\* C5: when concurrent calls of two different users have finished, each
\* user's stored portfolio is what that user's own call alone produces
C5_UsersIndependent ==
    (AllDone /\ loc[1].user_id # loc[2].user_id)
        => \A s \in Sessions :
              StoredDoc(portfolios, loc[s].user_id) = StoredDoc(Alone(s), loc[s].user_id)

---------------------------------------------------------------------------
(* Claims on the sequential ledger *)

StoredWallets(data) ==
    UNION {{<<i, c>> : c \in DOMAIN data[i].wallets} : i \in 1..Len(data)}

\* the portfolio a call on user_id starts from
Before(user_id) == GetUserPortfolio(portfolios, user_id).portfolio

\* the step is a sell of more than the balance of an existing wallet
Overdraw ==
    /\ result'.op = "sell"
    /\ HasWallet(Before(result'.user_id), result'.code)
    /\ FLt(get_wallet(Before(result'.user_id), result'.code).balance, result'.amount)

\* C1: every wallet balance, in the stored portfolios and in the Portfolio
\* object of the last call, is >= 0
C1_BalanceNonNegative ==
    /\ \A b \in Balances(portfolios) : FLe(0, b)
    /\ \A b \in Balances(mem) : FLe(0, b)

\* C2: a sell of more than the balance raises InsufficientFundsError carrying
\* the code, the balance before the call and the amount
C2_InsufficientFunds ==
    [][Overdraw =>
        /\ result'.raised
        /\ result'.exc = InsufficientFundsError(
              Upper(result'.code),
              get_wallet(Before(result'.user_id), result'.code).balance,
              result'.amount)]_vars

\* C3: a sell of more than the balance fails, leaves the wallet as it was and
\* leaves the stored portfolios as they were
C3_FailedSellNoDebit ==
    [][Overdraw =>
        /\ result'.raised
        /\ portfolios' = portfolios
        /\ mem' = <<Before(result'.user_id)>>]_vars

C3_Witness ==
    /\ result.op = "sell" /\ result.raised /\ result.printed
    /\ \E i \in 1..Len(portfolios) :
          /\ portfolios[i].user_id = result.user_id
          /\ HasWallet(portfolios[i], result.code)
          /\ FLt(0, get_wallet(portfolios[i], result.code).balance)
          /\ FLt(get_wallet(portfolios[i], result.code).balance, result.amount)

\* C10: a buy or sell with a code outside the registry raises
\* CurrencyNotFoundError, and no wallet for such a code is ever stored
C10_UnregisteredRejected ==
    /\ (result.op \in {"buy", "sell"} /\ validate_amount(result.amount)
        /\ get_currency(result.code).raised)
          => (result.raised /\ result.exc = get_currency(result.code).exc)
    /\ \A w \in StoredWallets(portfolios) : w[2] \in CurrencyRegistry

---------------------------------------------------------------------------
(* Claims on the rates updater *)

\* the clients run_update worked through
\* the clients of the working set of a run
Worked(r) == {n \in ClientNames : r.source \in {NoSource, n}}

\* the clients whose fetch_rates the run called
Invoked(r) == {r.invoked[i] : i \in 1..Len(r.invoked)}

Succeeded(r) == {n \in Invoked(r) : ~r.fetched[n].raised}

Failing(r) == {n \in Invoked(r) : r.fetched[n].raised}

\* every source of the working set succeeds or raises ApiRequestError
Absorbed(r) == \A n \in Worked(r) : ~Uncaught(r.fetched[n])

FreshPairs(r) == UNION {DOMAIN r.fetched[n].rates : n \in Succeeded(r)}

C7_StalePairsKept ==
    [][(result'.op = "run_update" /\ result'.saved /\ Failing(result') # {}) =>
        /\ DOMAIN snapshot'.pairs = (DOMAIN snapshot.pairs) \cup FreshPairs(result')
        /\ \A k \in (DOMAIN snapshot.pairs) \ FreshPairs(result') :
              snapshot'.pairs[k] = snapshot.pairs[k]]_vars

C7_Witness ==
    /\ result.op = "run_update" /\ result.saved
    /\ result.fetched["coingecko"].raised /\ "coingecko" \in Worked(result)
    /\ <<"BTC", "USD">> \in DOMAIN snapshot.pairs
    /\ snapshot.pairs[<<"BTC", "USD">>].updated_at < snapshot.last_refresh

\* C8: run_update writes the snapshot exactly when the mapping it has
\* accumulated is not empty; with an empty mapping the snapshot,
\* last_refresh included, is as before
C8_SaveIffNonEmpty ==
    [][result'.op = "run_update" =>
        /\ result'.saved <=> (DOMAIN result'.ret # {})
        /\ (DOMAIN result'.ret = {}) => snapshot' = snapshot
        /\ (DOMAIN result'.ret # {}) =>
              /\ snapshot'.last_refresh = clock
              /\ snapshot'.source = "ParserService"
              /\ \A k \in DOMAIN result'.ret : snapshot'.pairs[k].rate = result'.ret[k]]_vars

\* C9: every rate in the snapshot is > 0
C9_RatesPositive ==
    \A k \in DOMAIN snapshot.pairs : snapshot.pairs[k].rate > 0

---------------------------------------------------------------------------
(* Further claims on the sequential ledger *)

\* the step is a buy or a sell
LedgerCall == result'.op \in {"buy", "sell"}

\* C11: a buy or sell with amount <= 0 raises the invalid-amount ValueError;
\* no portfolio is loaded or created and the stored portfolios are as before
C11_InvalidAmountFirst ==
    [][(LedgerCall /\ FLe(result'.amount, 0)) =>
        /\ result'.raised
        /\ result'.exc = ValueError(MsgAmount)
        /\ mem' = <<>>
        /\ portfolios' = portfolios]_vars

C11_Witness ==
    /\ result.op \in {"buy", "sell"} /\ FLe(result.amount, 0)
    /\ result.raised /\ mem = <<>>
    /\ Indexes(portfolios, result.user_id) = {}
    /\ portfolios # <<>>

\* C12: a sell for a currency without a wallet raises the no-wallet error
\* and leaves the stored portfolios as they were, whether or not the user
\* has a portfolio document
C12_NoWalletNoMutation ==
    [][(result'.op = "sell" /\ validate_amount(result'.amount)
        /\ ~HasWallet(Before(result'.user_id), result'.code)) =>
        /\ result'.raised
        /\ result'.exc = ValueError(MsgNoWallet)
        /\ portfolios' = portfolios]_vars

\* C13: a buy of a positive amount succeeds, and a sell of the same amount
\* right after a buy into an empty or absent wallet succeeds and brings the
\* stored balance back to its value before the buy
C13_RoundTrip ==
    [][/\ (result'.op = "buy" /\ FLt(0, result'.amount)) => ~result'.raised
       /\ (/\ result.op = "buy" /\ ~result.raised /\ result.ret.old_balance = 0
           /\ result'.op = "sell"
           /\ result'.user_id = result.user_id
           /\ Upper(result'.code) = Upper(result.code)
           /\ result'.amount = result.amount) =>
              /\ ~result'.raised
              /\ FEq(result'.ret.old_balance, result.amount)
              /\ FEq(StoredBalance(portfolios', result.user_id, result.code),
                     result.ret.old_balance)]_vars

\* C14: a successful buy returns the balance before the call as old_balance
\* (0 for a wallet it creates) and the float sum old_balance + amount as
\* new_balance, the stored portfolio holds new_balance for the code, and the
\* user's other wallets are as before.  The values are compared as stored: a
\* wallet at NaN is returned and stored at NaN
C14_BuyEffect ==
    [][(result'.op = "buy" /\ ~result'.raised) =>
        LET u == result'.user_id
            code == Upper(result'.code)
            before == Before(u)
            after == GetUserPortfolio(portfolios', u).portfolio
        IN /\ result'.ret.old_balance = StoredBalance(portfolios, u, code)
           /\ result'.ret.new_balance = FAdd(result'.ret.old_balance, result'.amount)
           /\ Cardinality(Indexes(portfolios', u)) = 1
           /\ DOMAIN after.wallets = (DOMAIN before.wallets) \cup {code}
           /\ after.wallets[code] = [currency_code |-> code,
                                     balance |-> result'.ret.new_balance]
           /\ \A c \in (DOMAIN before.wallets) \ {code} :
                 after.wallets[c] = before.wallets[c]]_vars

C14_Witness ==
    /\ result.op = "buy" /\ ~result.raised
    /\ FLt(0, result.ret.old_balance) /\ Finite(result.ret.old_balance)
    /\ result.ret.new_balance = result.ret.old_balance + result.amount
    /\ StoredBalance(portfolios, result.user_id, Upper(result.code)) = result.ret.new_balance
    /\ Cardinality(DOMAIN GetUserPortfolio(portfolios, result.user_id).portfolio.wallets) = 2

\* C15: a buy of a positive amount while there is no rate for the code
\* succeeds, its deposit is stored, and the rate it returns is None
C15_MissingRateNoBlock ==
    (result.op = "buy" /\ FLt(0, result.amount)
     /\ get_rate(snapshot, result.code, "USD") = None) =>
        /\ ~result.raised
        /\ result.ret.rate = None
        /\ result.ret.new_balance = FAdd(result.ret.old_balance, result.amount)
        /\ StoredBalance(portfolios, result.user_id, result.code) = result.ret.new_balance

C15_Witness ==
    /\ result.op = "buy" /\ ~result.raised
    /\ get_rate(snapshot, result.code, "USD") = None
    /\ Finite(result.amount)
    /\ FLt(0, StoredBalance(portfolios, result.user_id, result.code))

\* C16: a buy that returns a rate returns an estimated cost
C16_CostWithRate ==
    (result.op = "buy" /\ ~result.raised /\ result.ret.rate # None) =>
        result.ret.estimated # None

\* C17: a get_user_portfolio right after a get_user_portfolio for the same
\* user returns the same portfolio and leaves the stored portfolios as they
\* were
C17_GetIdempotent ==
    [][(/\ result.op = "get_user_portfolio"
        /\ result'.op = "get_user_portfolio"
        /\ result'.user_id = result.user_id) =>
            /\ mem' = mem
            /\ portfolios' = portfolios]_vars

C17_Witness ==
    /\ result.op = "get_user_portfolio"
    /\ mem = <<Portfolio(result.user_id)>>
    /\ StoredDoc(portfolios, result.user_id) = mem
    /\ Len(portfolios) = 2

---------------------------------------------------------------------------
(* Further claims on the rates updater *)

\* C18: run_update with a source name that is no client's does not raise,
\* calls no fetch_rates, appends no historical record, writes no snapshot and
\* returns an empty mapping
C18_UnknownSourceSkipped ==
    [][(result'.op = "run_update" /\ result'.source \notin ClientNames \cup {NoSource}) =>
        /\ ~result'.raised
        /\ result'.invoked = <<>>
        /\ history' = history
        /\ snapshot' = snapshot
        /\ ~result'.saved
        /\ result'.ret = NoRates]_vars

C18_Witness ==
    /\ result.op = "run_update" /\ result.source = "binance"
    /\ result.invoked = <<>> /\ ~result.raised
    /\ history # <<>>

\* C19: without an API key the fiat client returns an empty mapping, sends
\* no request and does not raise, and a run_update over every source goes
\* on past it: it returns and writes the pairs of the crypto client
C19_NoKeyShortCircuit ==
    (result.op = "run_update" /\ ~config.api_key) =>
        /\ result.fetched["exchangerate"] = Fetched(FALSE, NoExc, NoRates, FALSE)
        /\ (result.source = NoSource /\ ~Uncaught(result.fetched["coingecko"])) =>
              /\ ~result.raised
              /\ result.invoked = Clients
              /\ ~result.fetched["coingecko"].raised =>
                    /\ result.ret = result.fetched["coingecko"].rates
                    /\ (DOMAIN result.ret # {}) =>
                          /\ result.saved
                          /\ snapshot.last_refresh = clock - 1
                          /\ \A k \in DOMAIN result.ret :
                                /\ k \in DOMAIN snapshot.pairs
                                /\ snapshot.pairs[k].rate = result.ret[k]
                                /\ snapshot.pairs[k].updated_at = clock - 1

C19_Witness ==
    /\ result.op = "run_update" /\ ~config.api_key /\ result.source = NoSource
    /\ ~result.fetched["exchangerate"].requested
    /\ result.saved
    /\ DOMAIN result.ret = {<<"BTC", "USD">>}

---------------------------------------------------------------------------
(* Claims on the ledger with registration *)

\* C20: the stored portfolios hold at most one document per user_id, and a
\* register_user that creates a portfolio appends one without wallets
C20_OnePortfolioPerUser ==
    [][/\ \A u \in UserIds : Cardinality(Indexes(portfolios', u)) <= 1
       /\ (result'.op = "register_user" /\ ~result'.raised) =>
             /\ Cardinality(Indexes(portfolios', result'.user_id)) = 1
             /\ Indexes(portfolios, result'.user_id) = {} =>
                   portfolios' = Append(portfolios,
                                   [user_id |-> result'.user_id, wallets |-> NoWallets])
             /\ Indexes(portfolios, result'.user_id) # {} => portfolios' = portfolios]_vars

C20_Witness ==
    /\ result.op = "register_user" /\ ~result.raised
    /\ Len(users) = 2 /\ Len(portfolios) = 2
    /\ StoredDoc(portfolios, result.user_id) = <<Portfolio(result.user_id)>>
    /\ \E b \in Balances(portfolios) : FLt(0, b)

---------------------------------------------------------------------------
(* Claims on the ledger and the rates it reads *)

\* the snapshot holds no pair CODE_USD for the code of the step
Uncached == /\ Upper(result'.code) # "USD"
            /\ <<Upper(result'.code), "USD">> \notin DOMAIN snapshot.pairs

\* C21: with no cached entry for CODE_USD, get_rate answers absent, and a buy
\* or sell of a positive amount fails only for the ledger's own reasons (no
\* wallet, balance too low): a buy succeeds, and a call that succeeds
\* carries rate and estimate absent
C21_CacheMissNoFailure ==
    [][(LedgerCall /\ FLt(0, result'.amount) /\ Uncached) =>
        /\ get_rate(snapshot, result'.code, "USD") = None
        /\ result'.op = "buy" => ~result'.raised
        /\ result'.raised =>
              result'.exc \in {ValueError(MsgNoWallet), ValueError(MsgNegative)}
        /\ ~result'.raised => result'.ret.rate = None /\ result'.ret.estimated = None]_vars

C21_Witness ==
    /\ result.op = "sell" /\ ~result.raised
    /\ snapshot = EmptySnapshot
    /\ result.ret.rate = None
    /\ FLt(result.ret.new_balance, result.ret.old_balance)

\* C25: a sell that succeeds returns new_balance = old_balance - amount, the
\* stored wallet holds new_balance, and estimated_revenue is amount * rate
\* when get_rate returns a rate and absent when it returns none
C25_SellEffect ==
    [][(result'.op = "sell" /\ ~result'.raised) =>
        /\ result'.ret.old_balance = get_wallet(Before(result'.user_id), result'.code).balance
        /\ result'.ret.new_balance = FSub(result'.ret.old_balance, result'.amount)
        /\ StoredBalance(portfolios', result'.user_id, Upper(result'.code))
              = result'.ret.new_balance
        /\ result'.ret.rate = get_rate(snapshot, result'.code, "USD")
        /\ result'.ret.rate # None =>
              result'.ret.estimated = FMul(result'.amount, result'.ret.rate)
        /\ result'.ret.rate = None => result'.ret.estimated = None]_vars

\* C27: a sell of exactly the balance succeeds and leaves the wallet in the
\* stored portfolio at balance 0; a sell of a positive amount on a wallet at
\* balance 0 fails in the balance setter, not for a missing wallet, and the
\* stored portfolios are as before
C27_SellAllKeepsWallet ==
    [][(result'.op = "sell" /\ FLt(0, result'.amount)
            /\ Indexes(portfolios, result'.user_id) # {}
            /\ HasWallet(Before(result'.user_id), result'.code)) =>
        LET b == get_wallet(Before(result'.user_id), result'.code).balance IN
        /\ FEq(b, result'.amount) =>
              /\ ~result'.raised
              /\ result'.ret.new_balance = 0
              /\ HasWallet(StoredDoc(portfolios', result'.user_id)[1], result'.code)
              /\ StoredBalance(portfolios', result'.user_id, Upper(result'.code)) = 0
        /\ b = 0 =>
              /\ result'.raised
              /\ result'.exc = ValueError(MsgNegative)
              /\ result'.exc # ValueError(MsgNoWallet)
              /\ portfolios' = portfolios]_vars

\* C28: every wallet key of a stored portfolio is upper-case and is its
\* wallet's currency_code, and a buy or sell that succeeds with a code in any
\* letter case acts on the wallet under the upper-case code
C28_CodesNormalised ==
    [][/\ \A i \in 1..Len(portfolios') : \A c \in DOMAIN portfolios'[i].wallets :
             /\ c \in {"BTC", "XYZ"}
             /\ portfolios'[i].wallets[c].currency_code = c
       /\ (LedgerCall /\ ~result'.raised) =>
             /\ result'.ret.currency = Upper(result'.code)
             /\ Upper(result'.code) \in {"BTC", "XYZ"}
             /\ StoredBalance(portfolios', result'.user_id, Upper(result'.code))
                   = result'.ret.new_balance]_vars

C28_Witness ==
    /\ result.op = "sell" /\ ~result.raised /\ result.code = "btc"
    /\ DOMAIN StoredDoc(portfolios, result.user_id)[1].wallets = {"BTC"}
    /\ StoredBalance(portfolios, result.user_id, "BTC") = result.ret.new_balance

---------------------------------------------------------------------------
(* Claims on the steps of run_update *)

\* the clients of the working set of a run, in the order of the loop
RECURSIVE Known(_)
Known(todo) ==
    IF todo = <<>> THEN <<>>
    ELSE IF Head(todo) \in ClientNames THEN <<Head(todo)>> \o Known(Tail(todo))
    ELSE Known(Tail(todo))

\* C22: within one run_update the snapshot is written at most once, and a
\* step that writes it is the step after the loop: no source is left, and
\* fetch_rates of every client of the working set has returned or raised
C22_WriteAfterAllSources ==
    [][/\ loc'[1].writes <= 1
       /\ (snapshot' # snapshot \/ loc'[1].writes > loc[1].writes) =>
             /\ pc[1] = "loop" /\ pc'[1] = "idle"
             /\ loc[1].todo = <<>>
             /\ loc[1].writes = 0 /\ loc'[1].writes = 1
             /\ loc[1].st.invoked = Known(sources_to_update(loc[1].source))]_vars

C22_Witness ==
    /\ pc[1] = "idle" /\ result.op = "run_update"
    /\ loc[1].writes = 1
    /\ loc[1].st.invoked = Clients
    /\ result.fetched["exchangerate"].raised
    /\ snapshot.last_refresh = clock - 1

---------------------------------------------------------------------------
(* Claims on the history log and on providers that share a pair *)

\* the records a step appends to the history log
Appended == SubSeq(history', Len(history) + 1, Len(history'))

\* C23: run_update keeps the records the log held, in place, and appends
\* after them one record per pair of each source that succeeded, with the
\* pair's rate and the source's name, and none for any other source
C23_OneRecordPerPair ==
    [][result'.op = "run_update" =>
        /\ Len(history') >= Len(history)
        /\ SubSeq(history', 1, Len(history)) = history
        /\ \A i \in 1..Len(Appended) :
              Appended[i].source \in {UpperName(n) : n \in Succeeded(result')}
        /\ \A n \in Succeeded(result') :
              LET rates == result'.fetched[n].rates
                  recs == {i \in 1..Len(Appended) : Appended[i].source = UpperName(n)}
              IN /\ Cardinality(recs) = Cardinality(DOMAIN rates)
                 /\ \A k \in DOMAIN rates :
                       Cardinality({i \in recs : /\ Appended[i].from = k[1]
                                                 /\ Appended[i].to = k[2]
                                                 /\ Appended[i].rate = rates[k]}) = 1]_vars

C23_Witness ==
    /\ result.op = "run_update" /\ result.source = NoSource
    /\ clock = 3
    /\ result.fetched["coingecko"].raised
    /\ Cardinality(DOMAIN result.fetched["exchangerate"].rates) = 2
    /\ Len(history) = 5
    /\ history[1].source = "COINGECKO" /\ history[1].timestamp = 1
    /\ history[5].source = "EXCHANGERATE" /\ history[5].timestamp = 2

\* C24: when two sources of the working set return a rate for the same pair,
\* the mapping run_update returns, and the snapshot, hold the rate of the
\* source processed first
C24_EarlierSourceKept ==
    (result.op = "run_update" /\ result.source = NoSource) =>
        \A k \in (DOMAIN result.fetched[Clients[1]].rates)
                    \cap (DOMAIN result.fetched[Clients[2]].rates) :
            (~result.fetched[Clients[1]].raised /\ ~result.fetched[Clients[2]].raised) =>
                /\ result.ret[k] = result.fetched[Clients[1]].rates[k]
                /\ snapshot.pairs[k].rate = result.fetched[Clients[1]].rates[k]

\* C29: when run_update returns, the pair of every record it appended is a
\* key of the mapping it returns, and it wrote the snapshot exactly when it
\* appended a record
C29_HistoryMatchesSnapshot ==
    [][(result'.op = "run_update" /\ ~result'.raised) =>
        /\ \A i \in 1..Len(Appended) :
              <<Appended[i].from, Appended[i].to>> \in DOMAIN result'.ret
        /\ result'.saved <=> Len(Appended) > 0
        /\ Len(Appended) > 0 => snapshot'.last_refresh = clock
        /\ Len(Appended) = 0 => snapshot' = snapshot]_vars

C29_Witness ==
    /\ result.op = "run_update" /\ result.source = NoSource
    /\ result.saved
    /\ ~result.fetched["coingecko"].raised
    /\ DOMAIN result.fetched["coingecko"].rates # {}
    /\ result.fetched["exchangerate"].raised
    /\ Len(history) > 0 /\ history[Len(history)].timestamp = clock - 1

---------------------------------------------------------------------------
(* Claims on the ledger and the updater together *)

\* C26: buy_currency, sell_currency and get_user_portfolio leave the
\* snapshot and the history log as they were, and run_update leaves the
\* stored portfolios as they were
C26_RatesAndLedgerApart ==
    [][/\ result'.op \in {"buy", "sell", "get_user_portfolio"} =>
             snapshot' = snapshot /\ history' = history
       /\ result'.op = "run_update" => portfolios' = portfolios]_vars

C26_Witness ==
    /\ result.op = "sell" /\ ~result.raised
    /\ result.ret.rate = MaxRate
    /\ snapshot.last_refresh > 0
    /\ Len(history) > 0
    /\ Len(portfolios) = 2

=============================================================================
